---- MODULE Spec2Model ----
(***************************************************************************)
(* A model of ytanalysis.py: the transcript cache (save_transcript,        *)
(* load_transcript, get_transcript), format_time, the response parsing of  *)
(* analyze_ad_quality and the batch loop run by the "Analyze" button.      *)
(*                                                                         *)
(* Python values are tagged records [ty, v]; a text (a file's content, the *)
(* model's answer) is a sequence of symbols: single characters, and JSON   *)
(* string and number literals taken as units.                              *)
(***************************************************************************)
EXTENDS Integers, Sequences, FiniteSets, TLC

VARIABLES
    files,        \* cached_transcripts/: video id -> [exists, data]
    lastCall,     \* the last cache call: its arguments, what it returned
    wpc, wvid, wbuf, wdoc, saved,   \* a process inside save_transcript
    rpc, rvid, rres,                \* a process inside load_transcript
    video_urls, valid_videos, idx, pc, shown,   \* the batch loop
    anIn, anOut,  \* analyze_ad_quality: the model's answer, the result
    ftIn, ftOut   \* format_time: its argument, its result

vars == <<files, lastCall, wpc, wvid, wbuf, wdoc, saved, rpc, rvid, rres,
          video_urls, valid_videos, idx, pc, shown, anIn, anOut, ftIn, ftOut>>

----------------------------------------------------------------------------
(* Bounds of the model *)

MaxEntries == 2

MaxSeconds == 36100

MaxUrls == 2

----------------------------------------------------------------------------
(* Python values *)

PyNone == [ty |-> "none", v |-> 0]

PyNum(n) == [ty |-> "num", v |-> n]

PyStr(s) == [ty |-> "str", v |-> s]

PyList(l) == [ty |-> "list", v |-> l]

\* A dict keeps its items in insertion order: a sequence of [k, val].
PyDict(items) == [ty |-> "dict", v |-> items]

Item(key, val) == [k |-> key, val |-> val]

\* bool(x), as `if x:` and `if not x:` take it
Truthy(x) ==
    CASE x.ty = "none" -> FALSE
      [] x.ty = "num" -> x.v # 0
      [] x.ty = "str" -> x.v # ""
      [] OTHER -> Len(x.v) > 0

\* key in d
HasKey(d, key) == \E i \in 1..Len(d.v) : d.v[i].k = key

\* d[key], for a key that is in d
GetItem(d, key) == d.v[CHOOSE i \in 1..Len(d.v) : d.v[i].k = key].val

\* d[key] = val: a new key goes last, a known key keeps its place
SetItem(items, key, val) ==
    IF \E i \in 1..Len(items) : items[i].k = key
    THEN [i \in 1..Len(items) |->
            IF items[i].k = key THEN Item(key, val) ELSE items[i]]
    ELSE Append(items, Item(key, val))

----------------------------------------------------------------------------
(* Texts *)

Ch(c) == [t |-> "c", s |-> c, n |-> 0]

StrLit(s) == [t |-> "s", s |-> s, n |-> 0]

NumLit(n) == [t |-> "n", s |-> "", n |-> n]

Whitespace == {" ", "\n", "\t", "\r"}

IsWs(sym) == sym.t = "c" /\ sym.s \in Whitespace

NL == <<Ch("\n")>>

RECURSIVE lstrip(_, _)
\* str.lstrip(chars): drops leading characters that are in the set chars
lstrip(text, chars) ==
    IF text # <<>> /\ text[1].t = "c" /\ text[1].s \in chars
    THEN lstrip(Tail(text), chars)
    ELSE text

RECURSIVE rstrip(_, _)
rstrip(text, chars) ==
    IF text # <<>> /\ text[Len(text)].t = "c" /\ text[Len(text)].s \in chars
    THEN rstrip(SubSeq(text, 1, Len(text) - 1), chars)
    ELSE text

\* str.strip(chars) and str.strip()
strip(text, chars) == rstrip(lstrip(text, chars), chars)

----------------------------------------------------------------------------
(* json.dump(obj, f, ensure_ascii=False, indent=2) and json.load / loads *)

IndentWidth == 2

Indent(level) == [i \in 1..(IndentWidth * level) |-> Ch(" ")]

RECURSIVE dumps(_, _)
RECURSIVE dump_elements(_, _, _)
RECURSIVE dump_members(_, _, _)

dump_elements(l, i, level) ==
    IF i > Len(l) THEN <<>>
    ELSE NL \o Indent(level) \o dumps(l[i], level)
         \o (IF i < Len(l) THEN <<Ch(",")>> ELSE <<>>)
         \o dump_elements(l, i + 1, level)

dump_members(items, i, level) ==
    IF i > Len(items) THEN <<>>
    ELSE NL \o Indent(level) \o <<StrLit(items[i].k), Ch(":"), Ch(" ")>>
         \o dumps(items[i].val, level)
         \o (IF i < Len(items) THEN <<Ch(",")>> ELSE <<>>)
         \o dump_members(items, i + 1, level)

dumps(x, level) ==
    CASE x.ty = "num" -> <<NumLit(x.v)>>
      [] x.ty = "str" -> <<StrLit(x.v)>>
      [] x.ty = "list" ->
            IF x.v = <<>> THEN <<Ch("["), Ch("]")>>
            ELSE <<Ch("[")>> \o dump_elements(x.v, 1, level + 1)
                 \o NL \o Indent(level) \o <<Ch("]")>>
      [] x.ty = "dict" ->
            IF x.v = <<>> THEN <<Ch("{"), Ch("}")>>
            ELSE <<Ch("{")>> \o dump_members(x.v, 1, level + 1)
                 \o NL \o Indent(level) \o <<Ch("}")>>
      [] OTHER -> <<Ch("n"), Ch("u"), Ch("l"), Ch("l")>>

json_dump(obj) == dumps(obj, 0)

ParseFail == [ok |-> FALSE, val |-> PyNone, pos |-> 0]

ParseOk(val, pos) == [ok |-> TRUE, val |-> val, pos |-> pos]

RECURSIVE ParseValue(_, _)
RECURSIVE ParseElements(_, _, _)
RECURSIVE ParseMembers(_, _, _)

\* the value that starts at symbol i of t (whitespace already skipped)
ParseValue(t, i) ==
    IF i > Len(t) THEN ParseFail
    ELSE IF t[i].t = "s" THEN ParseOk(PyStr(t[i].s), i + 1)
    ELSE IF t[i].t = "n" THEN ParseOk(PyNum(t[i].n), i + 1)
    ELSE IF t[i] = Ch("[") THEN
        IF i + 1 <= Len(t) /\ t[i + 1] = Ch("]")
        THEN ParseOk(PyList(<<>>), i + 2)
        ELSE ParseElements(t, i + 1, <<>>)
    ELSE IF t[i] = Ch("{") THEN
        IF i + 1 <= Len(t) /\ t[i + 1] = Ch("}")
        THEN ParseOk(PyDict(<<>>), i + 2)
        ELSE ParseMembers(t, i + 1, <<>>)
    ELSE ParseFail

ParseElements(t, i, acc) ==
    LET r == ParseValue(t, i) IN
    IF ~r.ok \/ r.pos > Len(t) THEN ParseFail
    ELSE IF t[r.pos] = Ch(",")
        THEN ParseElements(t, r.pos + 1, Append(acc, r.val))
    ELSE IF t[r.pos] = Ch("]")
        THEN ParseOk(PyList(Append(acc, r.val)), r.pos + 1)
    ELSE ParseFail

ParseMembers(t, i, acc) ==
    IF i + 1 > Len(t) \/ t[i].t # "s" \/ t[i + 1] # Ch(":") THEN ParseFail
    ELSE LET r == ParseValue(t, i + 2) IN
        IF ~r.ok \/ r.pos > Len(t) THEN ParseFail
        ELSE IF t[r.pos] = Ch(",")
            THEN ParseMembers(t, r.pos + 1, SetItem(acc, t[i].s, r.val))
        ELSE IF t[r.pos] = Ch("}")
            THEN ParseOk(PyDict(SetItem(acc, t[i].s, r.val)), r.pos + 1)
        ELSE ParseFail

\* json.loads(text): one JSON value with whitespace around its tokens, or
\* JSONDecodeError
json_loads(text) ==
    LET t == SelectSeq(text, LAMBDA sym : ~IsWs(sym))
        r == ParseValue(t, 1)
    IN  IF r.ok /\ r.pos = Len(t) + 1
        THEN [raised |-> "", value |-> r.val]
        ELSE [raised |-> "JSONDecodeError", value |-> PyNone]

----------------------------------------------------------------------------
(* The transcript cache *)

IdLen == 11

Rep(c, n) == [i \in 1..n |-> c]

\* two video identifiers, as their 11 characters
VideoIds == {Rep("a", IdLen), Rep("b", IdLen)}

NoFile == [exists |-> FALSE, data |-> <<>>]

File(data) == [exists |-> TRUE, data |-> data]

\* save_transcript opening the file with "a": the dump follows the old content
save_transcript_append(fs, video_id, transcript) ==
    [fs EXCEPT ![video_id] = File(fs[video_id].data \o json_dump(transcript))]

\* open(file_path, "w") replaces the file's content by the dump
save_transcript(fs, video_id, transcript) ==
    [fs EXCEPT ![video_id] = File(json_dump(transcript))]

load_transcript(fs, video_id) ==
    IF fs[video_id].exists
    THEN json_loads(fs[video_id].data)
    ELSE [raised |-> "", value |-> PyNone]

\* entry["start"], entry["text"] of every remote entry; KeyError if one lacks
ProjectEntry(entry) ==
    PyDict(<<Item("start", GetItem(entry, "start")),
             Item("text", GetItem(entry, "text"))>>)

\* get_transcript caching a failure as an empty document
get_transcript_caches_failure(fs, video_id, api) ==
    LET cached == load_transcript(fs, video_id) IN
    IF cached.raised # "" THEN
        [raised |-> cached.raised, ret |-> PyNone, err |-> PyNone,
         fs |-> fs, called |-> FALSE]
    ELSE IF Truthy(cached.value) THEN
        [raised |-> "", ret |-> cached.value, err |-> PyNone,
         fs |-> fs, called |-> FALSE]
    ELSE IF api.ok THEN
        LET transcript ==
                PyList([i \in 1..Len(api.data.v) |-> ProjectEntry(api.data.v[i])])
        IN  [raised |-> "", ret |-> transcript, err |-> PyNone,
             fs |-> save_transcript(fs, video_id, transcript), called |-> TRUE]
    ELSE
        [raised |-> "", ret |-> PyNone, err |-> PyStr("Error: " \o api.error),
         fs |-> save_transcript(fs, video_id, PyList(<<>>)), called |-> TRUE]

\* get_transcript keeping the remote entries as they came
get_transcript_keeps_fields(fs, video_id, api) ==
    LET cached == load_transcript(fs, video_id) IN
    IF cached.raised # "" THEN
        [raised |-> cached.raised, ret |-> PyNone, err |-> PyNone,
         fs |-> fs, called |-> FALSE]
    ELSE IF Truthy(cached.value) THEN
        [raised |-> "", ret |-> cached.value, err |-> PyNone,
         fs |-> fs, called |-> FALSE]
    ELSE IF api.ok THEN
        [raised |-> "", ret |-> api.data, err |-> PyNone,
         fs |-> save_transcript(fs, video_id, api.data), called |-> TRUE]
    ELSE
        [raised |-> "", ret |-> PyNone, err |-> PyStr("Error: " \o api.error),
         fs |-> fs, called |-> TRUE]

\* api: what YouTubeTranscriptApi.get_transcript does when called,
\* [ok, data, error]
get_transcript(fs, video_id, api) ==
    LET cached == load_transcript(fs, video_id) IN
    IF cached.raised # "" THEN
        [raised |-> cached.raised, ret |-> PyNone, err |-> PyNone,
         fs |-> fs, called |-> FALSE]
    ELSE IF Truthy(cached.value) THEN
        [raised |-> "", ret |-> cached.value, err |-> PyNone,
         fs |-> fs, called |-> FALSE]
    ELSE IF api.ok /\ \A i \in 1..Len(api.data.v) :
                HasKey(api.data.v[i], "start") /\ HasKey(api.data.v[i], "text")
    THEN
        LET transcript ==
                PyList([i \in 1..Len(api.data.v) |-> ProjectEntry(api.data.v[i])])
        IN  [raised |-> "", ret |-> transcript, err |-> PyNone,
             fs |-> save_transcript(fs, video_id, transcript), called |-> TRUE]
    ELSE
        [raised |-> "", ret |-> PyNone,
         err |-> PyStr(IF api.ok THEN "Error: 'start'" ELSE "Error: " \o api.error),
         fs |-> fs, called |-> TRUE]

----------------------------------------------------------------------------
(* format_time: a Python str is here the sequence of its characters *)

DigitChar == <<"0", "1", "2", "3", "4", "5", "6", "7", "8", "9">>

RECURSIVE Digits(_)
\* str(n) of an int n >= 0
Digits(n) ==
    IF n < 10 THEN <<DigitChar[n + 1]>>
    ELSE Digits(n \div 10) \o <<DigitChar[(n % 10) + 1]>>

\* f"{n:0w}": zero-padded to at least w characters
FormatInt(n, width) ==
    LET d == Digits(n) IN
    IF Len(d) < width THEN Rep("0", width - Len(d)) \o d ELSE d

NA == <<"N", "/", "A">>

\* float("inf") and float("nan"), the floats that are no number of seconds
PyInf == [ty |-> "inf", v |-> 0]

PyNaN == [ty |-> "nan", v |-> 0]

\* float(seconds) raises TypeError for None, a list or a dict and ValueError
\* for a text that is no number
Floatable(seconds) == seconds.ty \in {"num", "inf", "nan"}

\* what format_time gives when int(seconds) raises OverflowError, which its
\* except clause does not name: the exception leaves the function
Overflow == <<"OverflowError">>

\* format_time without the hour component: minutes run past 59
format_time_short(seconds) ==
    IF ~Floatable(seconds) \/ seconds.ty = "nan" THEN NA
    ELSE IF seconds.ty = "inf" THEN Overflow
    ELSE FormatInt(seconds.v \div 60, 2) \o <<":">> \o FormatInt(seconds.v % 60, 2)

\* format_time padding the hour like the minutes
format_time_padded_hour(seconds) ==
    IF ~Floatable(seconds) \/ seconds.ty = "nan" THEN NA
    ELSE IF seconds.ty = "inf" THEN Overflow
    ELSE LET hours == seconds.v \div 3600
             minutes == (seconds.v % 3600) \div 60
             secs == seconds.v % 60
         IN  IF hours > 0
             THEN FormatInt(hours, 2) \o <<":">> \o FormatInt(minutes, 2)
                  \o <<":">> \o FormatInt(secs, 2)
             ELSE FormatInt(minutes, 2) \o <<":">> \o FormatInt(secs, 2)

\* ValueError and TypeError, of float(seconds) or of int(nan), give "N/A".
\* A number is taken whole (int(seconds)): seconds.v is that whole number,
\* not negative.
format_time(seconds) ==
    IF ~Floatable(seconds) \/ seconds.ty = "nan" THEN NA
    ELSE IF seconds.ty = "inf" THEN Overflow
    ELSE LET hours == seconds.v \div 3600
             minutes == (seconds.v % 3600) \div 60
             secs == seconds.v % 60
         IN  IF hours > 0
             THEN FormatInt(hours, 1) \o <<":">> \o FormatInt(minutes, 2)
                  \o <<":">> \o FormatInt(secs, 2)
             ELSE FormatInt(minutes, 2) \o <<":">> \o FormatInt(secs, 2)

----------------------------------------------------------------------------
(* analyze_ad_quality *)

\* the backquote character, which a TLA+ string cannot hold
Backquote == "BACKQUOTE"

\* the characters of the two strip arguments: three backquotes and json, and
\* three backquotes
FenceJsonChars == {Backquote, "j", "s", "o", "n"}

FenceChars == {Backquote}

\* response.text.strip().strip(fence + "json").strip(fence).strip()
clean_text(text) ==
    strip(strip(strip(strip(text, Whitespace), FenceJsonChars), FenceChars),
          Whitespace)

Unknown == <<"u", "n", "k", "n", "o", "w", "n">>

\* the estimated length put in the prompt: the last entry's start plus 5
video_length(transcript) ==
    LET last_entry == transcript.v[Len(transcript.v)] IN
    IF HasKey(last_entry, "start") /\ GetItem(last_entry, "start").ty = "num"
    THEN format_time(PyNum(GetItem(last_entry, "start").v + 5))
    ELSE Unknown

\* one "[MM:SS] text" line per entry
transcript_formatted(transcript) ==
    [i \in 1..Len(transcript.v) |->
        [time |-> format_time(GetItem(transcript.v[i], "start")),
         text |-> GetItem(transcript.v[i], "text").v]]

\* llm: what model.generate_content does with the prompt, [raised, text].
\* st_error is the kind of the message given to st.error, "" if none.
analyze_ad_quality(transcript, video_id, llm) ==
    IF ~Truthy(transcript) THEN
        [ret |-> PyNone, st_error |-> "No transcript", prompted |-> FALSE,
         lines |-> <<>>, length |-> Unknown]
    ELSE
        LET lines == transcript_formatted(transcript)
            length == video_length(transcript)
            ad_data == json_loads(clean_text(llm.text))
        IN  IF llm.raised THEN
                [ret |-> PyNone, st_error |-> "LLM Error", prompted |-> TRUE,
                 lines |-> lines, length |-> length]
            ELSE IF ad_data.raised # "" THEN
                [ret |-> PyNone, st_error |-> "JSON Parsing Error",
                 prompted |-> TRUE, lines |-> lines, length |-> length]
            ELSE
                [ret |-> ad_data.value, st_error |-> "", prompted |-> TRUE,
                 lines |-> lines, length |-> length]

\* no answer yet, no result yet
NoAnswer ==
    [raised |-> FALSE, text |-> <<>>, fenced |-> FALSE, tag |-> <<>>, body |-> <<>>]

NoResult ==
    [done |-> FALSE, ret |-> PyNone, st_error |-> "", prompted |-> FALSE,
     lines |-> <<>>, length |-> Unknown]

MetricKeys ==
    <<"ad_naturalness", "persuasiveness", "trustworthiness",
      "ad_length_placement", "engagement">>

TopKeys ==
    <<"product_name", "start_time", "end_time", "overall_score",
      "overall_summary">>

RECURSIVE render_top(_, _)
\* analysis[key] for the five top-level keys in turn
render_top(analysis, i) ==
    IF i > Len(TopKeys) THEN ""
    ELSE IF ~HasKey(analysis, TopKeys[i]) THEN "KeyError"
    ELSE render_top(analysis, i + 1)

RECURSIVE render_metrics(_, _)
\* analysis[key]['score'] and analysis[key]['explanation'], metric by metric
render_metrics(analysis, i) ==
    IF i > Len(MetricKeys) THEN ""
    ELSE IF ~HasKey(analysis, MetricKeys[i]) THEN "KeyError"
    ELSE IF GetItem(analysis, MetricKeys[i]).ty # "dict" THEN "TypeError"
    ELSE IF ~HasKey(GetItem(analysis, MetricKeys[i]), "score") THEN "KeyError"
    ELSE IF ~HasKey(GetItem(analysis, MetricKeys[i]), "explanation")
        THEN "KeyError"
    ELSE render_metrics(analysis, i + 1)

\* the page's use of the result: "" when it renders the result or, the result
\* being falsy, skips it; else the exception the subscripts raise
render(analysis) ==
    IF ~Truthy(analysis) THEN ""
    ELSE IF analysis.ty # "dict" THEN "TypeError"
    ELSE IF render_top(analysis, 1) # "" THEN render_top(analysis, 1)
    ELSE render_metrics(analysis, 1)

----------------------------------------------------------------------------
(* extract_video_id, get_video_details and one round of the batch loop *)

\* [0-9A-Za-z_-]
IdChars ==
    {"0", "1", "2", "3", "4", "5", "6", "7", "8", "9", "_", "-",
     "A", "B", "C", "D", "E", "F", "G", "H", "I", "J", "K", "L", "M",
     "N", "O", "P", "Q", "R", "S", "T", "U", "V", "W", "X", "Y", "Z",
     "a", "b", "c", "d", "e", "f", "g", "h", "i", "j", "k", "l", "m",
     "n", "o", "p", "q", "r", "s", "t", "u", "v", "w", "x", "y", "z"}

\* re.search(r"(?:v=|\/)([0-9A-Za-z_-]{11})", url): group 1 of the leftmost
\* match, <<>> for None
extract_video_id(url) ==
    LET n == Len(url)
        IsId(j) == url[j].t = "c" /\ url[j].s \in IdChars
        MatchV(i) ==
            /\ i + 1 + IdLen <= n
            /\ url[i] = Ch("v") /\ url[i + 1] = Ch("=")
            /\ \A j \in (i + 2)..(i + 1 + IdLen) : IsId(j)
        MatchSlash(i) ==
            /\ i + IdLen <= n
            /\ url[i] = Ch("/")
            /\ \A j \in (i + 1)..(i + IdLen) : IsId(j)
        starts == {i \in 1..n : MatchV(i) \/ MatchSlash(i)}
    IN  IF starts = {} THEN <<>>
        ELSE LET i == CHOOSE k \in starts : \A m \in starts : k <= m
                 first == IF MatchV(i) THEN i + 2 ELSE i + 1
             IN  [j \in 1..IdLen |-> url[first + j - 1].s]

\* http: what requests.get does, "items", "empty", "404" or "raise".
\* requests.get raising is not caught.
get_video_details(video_id, http) ==
    IF http = "raise" THEN [raised |-> "ConnectionError", title |-> ""]
    ELSE IF http = "items" THEN [raised |-> "", title |-> "A title"]
    ELSE [raised |-> "", title |-> "Unknown Title"]

\* what one round of `for video_url in valid_videos` does with video_url:
\* [kind, raised, fs]. raised names the exception that leaves the loop, "" if
\* the round ends and the loop goes on. kind names what happened in the round.
process_video(fs, video_url, http, api, llm) ==
    LET video_id == extract_video_id(video_url) IN
    IF video_id = <<>> THEN
        [kind |-> "InvalidUrl", raised |-> "", fs |-> fs]
    ELSE
    LET details == get_video_details(video_id, http)
        got == get_transcript(fs, video_id, api)
        analysis == analyze_ad_quality(got.ret, video_id, llm)
        decoded == json_loads(clean_text(llm.text))
        shown_as == render(analysis.ret)
    IN  IF details.raised # "" THEN
            [kind |-> "MetadataFailed", raised |-> details.raised, fs |-> fs]
        ELSE IF got.raised # "" THEN
            [kind |-> "CacheCorrupt", raised |-> got.raised, fs |-> fs]
        ELSE IF Truthy(got.err) THEN
            [kind |-> "TranscriptUnavailable", raised |-> "", fs |-> got.fs]
        ELSE IF ~analysis.prompted THEN
            [kind |-> "NoTranscript", raised |-> "", fs |-> got.fs]
        ELSE IF analysis.st_error = "LLM Error" THEN
            [kind |-> "ModelFailed", raised |-> "", fs |-> got.fs]
        ELSE IF analysis.st_error = "JSON Parsing Error" THEN
            [kind |-> "ModelResponseMalformed", raised |-> "", fs |-> got.fs]
        ELSE IF decoded.value.ty # "dict" THEN
            [kind |-> "ModelResponseNotObject", raised |-> shown_as, fs |-> got.fs]
        ELSE IF shown_as # "" \/ ~Truthy(analysis.ret) THEN
            [kind |-> "ModelResponseIncomplete", raised |-> shown_as,
             fs |-> got.fs]
        ELSE
            [kind |-> "Rendered", raised |-> "", fs |-> got.fs]

----------------------------------------------------------------------------
(* The cache calls, one at a time (specification Spec) *)

\* entries as the remote captioning service gives them
RawEntries ==
    { PyDict(<<Item("text", PyStr("hello")), Item("start", PyNum(0)),
               Item("duration", PyNum(3))>>),
      PyDict(<<Item("text", PyStr("buy now")), Item("start", PyNum(3)),
               Item("duration", PyNum(4))>>) }

SeqsUpTo(S, n) == UNION {[1..k -> S] : k \in 0..n}

RawDocs == {PyList(l) : l \in SeqsUpTo(RawEntries, MaxEntries)}

\* transcript documents: sequences of {start, text}
Docs ==
    {PyList([i \in 1..Len(r.v) |-> ProjectEntry(r.v[i])]) : r \in RawDocs}

ApiOk(raw) == [ok |-> TRUE, data |-> raw, error |-> ""]

ApiFail(e) == [ok |-> FALSE, data |-> PyList(<<>>), error |-> e]

\* the remote call returns captions or raises
ApiOutcomes ==
    {ApiOk(raw) : raw \in RawDocs} \cup {ApiFail("TranscriptsDisabled")}

NoApi == ApiFail("")

NoCall ==
    [op |-> "none", video_id |-> Rep("a", IdLen), arg |-> PyNone, api |-> NoApi,
     before |-> [v \in VideoIds |-> NoFile],
     ret |-> PyNone, err |-> PyNone, raised |-> "", called |-> FALSE]

EmptyDir == [v \in VideoIds |-> NoFile]

CacheIdle ==
    /\ wpc = "idle" /\ wvid = Rep("a", IdLen) /\ wbuf = <<>> /\ wdoc = PyNone
    /\ saved = [v \in VideoIds |-> {}]
    /\ rpc = "idle" /\ rvid = Rep("a", IdLen)
    /\ rres = [done |-> FALSE, raised |-> "", value |-> PyNone]

BatchIdle ==
    /\ video_urls = <<>> /\ valid_videos = <<>> /\ idx = 0 /\ pc = "idle"
    /\ shown = <<>>

ParseIdle ==
    /\ anIn = [transcript |-> PyList(<<>>), llm |-> NoAnswer]
    /\ anOut = NoResult

TimeIdle == ftIn = PyNone /\ ftOut = <<>>

Init ==
    /\ files = EmptyDir
    /\ lastCall = NoCall
    /\ CacheIdle /\ BatchIdle /\ ParseIdle /\ TimeIdle

otherThanCache ==
    <<wpc, wvid, wbuf, wdoc, saved, rpc, rvid, rres,
      video_urls, valid_videos, idx, pc, shown, anIn, anOut, ftIn, ftOut>>

\* (before is kept for load and get only: a save does not read the directory)
SaveTranscript(video_id, transcript) ==
    /\ files' = save_transcript(files, video_id, transcript)
    /\ lastCall' = [NoCall EXCEPT !.op = "save", !.video_id = video_id,
                                  !.arg = transcript]
    /\ UNCHANGED otherThanCache

LoadTranscript(video_id) ==
    LET r == load_transcript(files, video_id) IN
    /\ lastCall' = [NoCall EXCEPT !.op = "load", !.video_id = video_id,
                                  !.before = files, !.ret = r.value,
                                  !.raised = r.raised]
    /\ UNCHANGED <<files, otherThanCache>>

GetTranscript(video_id, api) ==
    LET r == get_transcript(files, video_id, api) IN
    /\ files' = r.fs
    /\ lastCall' = [NoCall EXCEPT !.op = "get", !.video_id = video_id,
                                  !.api = api, !.before = files, !.ret = r.ret,
                                  !.err = r.err, !.raised = r.raised,
                                  !.called = r.called]
    /\ UNCHANGED otherThanCache

Next ==
    \/ \E v \in VideoIds, d \in Docs : SaveTranscript(v, d)
    \/ \E v \in VideoIds : LoadTranscript(v)
    \/ \E v \in VideoIds, api \in ApiOutcomes : GetTranscript(v, api)

Spec == Init /\ [][Next]_vars

----------------------------------------------------------------------------
(* Properties of the cache *)

\* what the cache lookup of the last call found
Cached == load_transcript(lastCall.before, lastCall.video_id)

\* the last call was a get_transcript that did not return from the cache
MissedGet ==
    lastCall.op = "get" /\ Cached.raised = "" /\ ~Truthy(Cached.value)

\* d is the entries of raw, in order, each with start and text and no more
IsProjection(d, raw) ==
    /\ d.ty = "list" /\ Len(d.v) = Len(raw.v)
    /\ \A i \in 1..Len(d.v) :
        /\ d.v[i].ty = "dict"
        /\ Len(d.v[i].v) = 2
        /\ {d.v[i].v[j].k : j \in 1..2} = {"start", "text"}
        /\ GetItem(d.v[i], "start") = GetItem(raw.v[i], "start")
        /\ GetItem(d.v[i], "text") = GetItem(raw.v[i], "text")

\* C1: whenever get_transcript(X) is called while the cache holds a document
\* D for X (an empty one included), it returns D, no error, and does not
\* call the remote captioning service.
C1_CachedNeverRefetched ==
    (/\ lastCall.op = "get"
     /\ lastCall.before[lastCall.video_id].exists
     /\ Cached.raised = "" /\ Cached.value.ty = "list")
    => /\ lastCall.ret = Cached.value
       /\ lastCall.err = PyNone
       /\ ~lastCall.called

\* C2: a get_transcript that misses the cache and whose remote call fails
\* returns (None, error) and leaves every cache file as it was, so that a
\* get_transcript of the same identifier right after calls the remote service
\* again and returns the document if that call succeeds.
C2_FailureNotCached ==
    (MissedGet /\ lastCall.called /\ ~lastCall.api.ok)
    => /\ lastCall.ret = PyNone
       /\ lastCall.raised = ""
       /\ lastCall.err.ty = "str" /\ Truthy(lastCall.err)
       /\ files = lastCall.before
       /\ \A raw \in RawDocs :
            LET r == get_transcript(files, lastCall.video_id, ApiOk(raw)) IN
            r.called /\ r.err = PyNone /\ IsProjection(r.ret, raw)

C2_Witness ==
    /\ MissedGet /\ lastCall.called /\ ~lastCall.api.ok
    /\ \E v \in VideoIds : files[v].exists

\* C3: a get_transcript that misses the cache and whose remote call succeeds
\* with r1..rn returns the {start, text} of r1..rn in order and no error;
\* afterwards the cache file of that identifier holds exactly the returned
\* document and the files of the other identifiers are unchanged.
C3_FetchProjectsAndCaches ==
    (MissedGet /\ lastCall.api.ok)
    => /\ lastCall.called /\ lastCall.raised = "" /\ lastCall.err = PyNone
       /\ IsProjection(lastCall.ret, lastCall.api.data)
       /\ files[lastCall.video_id].exists
       /\ json_loads(files[lastCall.video_id].data)
            = [raised |-> "", value |-> lastCall.ret]
       /\ \A w \in VideoIds \ {lastCall.video_id} :
            files[w] = lastCall.before[w]

C3_Witness ==
    /\ MissedGet /\ lastCall.api.ok
    /\ Len(lastCall.api.data.v) = MaxEntries
    /\ \E w \in VideoIds \ {lastCall.video_id} : files[w].exists

\* C4: a load_transcript(V) that directly follows a save_transcript(V, D)
\* returns D, whatever the file held before the save; and a load_transcript
\* of an identifier with no cache file returns None and does not raise.
C4_SaveLoadRoundTrip ==
    /\ [][(/\ lastCall.op = "save" /\ lastCall'.op = "load"
           /\ lastCall'.video_id = lastCall.video_id)
          => (lastCall'.raised = "" /\ lastCall'.ret = lastCall.arg)]_vars
    /\ [](   (lastCall.op = "load" /\ ~lastCall.before[lastCall.video_id].exists)
          => (lastCall.raised = "" /\ lastCall.ret = PyNone))

\* a non-empty document read back from a file
C4_Witness ==
    /\ lastCall.op = "load"
    /\ lastCall.before[lastCall.video_id].exists
    /\ lastCall.ret.ty = "list" /\ Len(lastCall.ret.v) = MaxEntries

----------------------------------------------------------------------------
(* format_time applied to one argument (specification SpecTime) *)

TimeInputs ==
    {PyNum(n) : n \in 0..MaxSeconds}
    \cup {PyNone, PyStr("soon"), PyStr(""), PyList(<<>>), PyInf, PyNaN}

InitTime ==
    /\ files = EmptyDir /\ lastCall = NoCall
    /\ CacheIdle /\ BatchIdle /\ ParseIdle
    /\ ftIn \in TimeInputs
    /\ ftOut = <<>>

FormatTime ==
    /\ ftOut = <<>>
    /\ ftOut' = format_time(ftIn)
    /\ UNCHANGED <<files, lastCall, wpc, wvid, wbuf, wdoc, saved, rpc, rvid, rres,
                   video_urls, valid_videos, idx, pc, shown, anIn, anOut, ftIn>>

NextTime == FormatTime

SpecTime == InitTime /\ [][NextTime]_vars

\* the positions of the colons of a rendering
Colons(chars) == {i \in 1..Len(chars) : chars[i] = ":"}

IsDigit(c) == \E d \in 1..10 : DigitChar[d] = c

DigitValue(c) == (CHOOSE d \in 1..10 : DigitChar[d] = c) - 1

RECURSIVE NumberOf(_)
\* the number a sequence of digits writes
NumberOf(ds) ==
    IF ds = <<>> THEN 0
    ELSE 10 * NumberOf(SubSeq(ds, 1, Len(ds) - 1)) + DigitValue(ds[Len(ds)])

AllDigits(ds) == ds # <<>> /\ \A i \in 1..Len(ds) : IsDigit(ds[i])

\* chars is MM:SS for s
IsShortClock(chars, s) ==
    /\ Len(chars) = 5 /\ Colons(chars) = {3}
    /\ AllDigits(SubSeq(chars, 1, 2)) /\ AllDigits(SubSeq(chars, 4, 5))
    /\ NumberOf(SubSeq(chars, 1, 2)) < 60 /\ NumberOf(SubSeq(chars, 4, 5)) < 60
    /\ NumberOf(SubSeq(chars, 1, 2)) * 60 + NumberOf(SubSeq(chars, 4, 5)) = s

\* chars is H:MM:SS for s, H without a leading zero
IsLongClock(chars, s) ==
    LET n == Len(chars)
        h == SubSeq(chars, 1, n - 6)
        m == SubSeq(chars, n - 4, n - 3)
        sec == SubSeq(chars, n - 1, n)
    IN  /\ n >= 7 /\ Colons(chars) = {n - 5, n - 2}
        /\ AllDigits(h) /\ AllDigits(m) /\ AllDigits(sec)
        /\ h[1] # "0"
        /\ NumberOf(m) < 60 /\ NumberOf(sec) < 60
        /\ NumberOf(h) * 3600 + NumberOf(m) * 60 + NumberOf(sec) = s

\* C9: for a whole number of seconds s >= 0, format_time(s) is H:MM:SS (H not
\* padded, MM and SS two digits below 60) when s >= 3600 and MM:SS otherwise,
\* and the fields add up to s; for None and for a value that is no number it
\* is "N/A"; 0 gives 00:00, 65 gives 01:05 and 3605 gives 1:00:05.
C9_FormatTime ==
    /\ ftOut # <<>> =>
        /\ ftIn.ty = "num" =>
                IF ftIn.v >= 3600 THEN IsLongClock(ftOut, ftIn.v)
                                  ELSE IsShortClock(ftOut, ftIn.v)
        /\ ftIn.ty \in {"none", "str", "list"} => ftOut = NA
    /\ (ftOut # <<>> /\ ftIn = PyNum(0)) => ftOut = <<"0", "0", ":", "0", "0">>
    /\ (ftOut # <<>> /\ ftIn = PyNum(65)) => ftOut = <<"0", "1", ":", "0", "5">>
    /\ (ftOut # <<>> /\ ftIn = PyNum(3605))
        => ftOut = <<"1", ":", "0", "0", ":", "0", "5">>

\* a rendering with a two-digit hour
C9_Witness ==
    ftIn = PyNum(36065) /\ ftOut = <<"1", "0", ":", "0", "1", ":", "0", "5">>

----------------------------------------------------------------------------
(* analyze_ad_quality applied to one answer of the model (SpecParse) *)

Metric(score, explanation) ==
    PyDict(<<Item("score", PyNum(score)), Item("explanation", PyStr(explanation))>>)

\* an answer with every key of the output format the prompt asks for
GoodAnalysis ==
    PyDict(<<Item("product_name", PyStr("NordVPN")),
             Item("start_time", PyStr("02:05")),
             Item("end_time", PyStr("03:10")),
             Item("overall_score", PyNum(7)),
             Item("overall_summary", PyStr("Clear and short")),
             Item("ad_naturalness", Metric(6, "Fits the video")),
             Item("persuasiveness", Metric(7, "Concrete offer")),
             Item("trustworthiness", Metric(8, "Disclosed")),
             Item("ad_length_placement", Metric(5, "Mid-roll")),
             Item("engagement", Metric(7, "Call to action"))>>)

\* the same answer with the times as numbers of seconds
NumericTimes ==
    PyDict(SetItem(SetItem(GoodAnalysis.v, "start_time", PyNum(125)),
                   "end_time", PyNum(190)))

\* d without key
Without(d, key) == PyDict(SelectSeq(d.v, LAMBDA it : it.k # key))

AllKeys == {GoodAnalysis.v[i].k : i \in 1..Len(GoodAnalysis.v)}

\* answers that are JSON values
AnswerValues ==
    {GoodAnalysis, NumericTimes, PyDict(<<>>), PyList(<<PyNum(1)>>)}
    \cup {Without(GoodAnalysis, key) : key \in AllKeys}
    \cup {PyDict(SetItem(GoodAnalysis.v, "engagement",
                         PyDict(<<Item("score", PyNum(7))>>)))}

Chars(cs) == [i \in 1..Len(cs) |-> Ch(cs[i])]

\* the answer's text: the JSON documents, one cut short, one after a sentence
AnswerBodies ==
    {json_dump(x) : x \in AnswerValues}
    \cup {SelectSeq(json_dump(GoodAnalysis), LAMBDA sym : ~IsWs(sym))}
    \cup {SubSeq(json_dump(GoodAnalysis), 1, Len(json_dump(GoodAnalysis)) - 1)}
    \cup {Chars(<<"H", "e", "r", "e", ":", " ">>) \o json_dump(GoodAnalysis)}

Fence == Chars(<<Backquote, Backquote, Backquote>>)

\* language tags written after the opening fence
Tags ==
    {<<>>, <<"j", "s", "o", "n">>, <<"J", "S", "O", "N">>,
     <<"j", "a", "v", "a", "s", "c", "r", "i", "p", "t">>}

Fenced(tag, inner, body) == Fence \o Chars(tag) \o inner \o body \o inner \o Fence

\* what the model may answer: [raised, text, fenced, tag, body]
Answers ==
    {[raised |-> FALSE, text |-> outer \o body \o outer, fenced |-> FALSE,
      tag |-> <<>>, body |-> body] :
        outer \in {<<>>, NL}, body \in AnswerBodies}
    \cup {[raised |-> FALSE, text |-> outer \o Fenced(tag, inner, body) \o outer,
           fenced |-> TRUE, tag |-> tag, body |-> body] :
        outer \in {<<>>, NL}, tag \in Tags, inner \in {<<>>, NL, <<Ch(" ")>>},
        body \in AnswerBodies}
    \cup {[raised |-> TRUE, text |-> <<>>, fenced |-> FALSE, tag |-> <<>>,
           body |-> <<>>]}

OneEntryDoc ==
    PyList(<<PyDict(<<Item("start", PyNum(3595)), Item("text", PyStr("hello"))>>)>>)

InitParse ==
    /\ files = EmptyDir /\ lastCall = NoCall
    /\ CacheIdle /\ BatchIdle /\ TimeIdle
    /\ anIn \in [transcript : {PyList(<<>>), OneEntryDoc}, llm : Answers]
    /\ anOut = NoResult

AnalyzeAdQuality ==
    /\ ~anOut.done
    /\ LET r == analyze_ad_quality(anIn.transcript, Rep("a", IdLen), anIn.llm) IN
        anOut' = [done |-> TRUE, ret |-> r.ret, st_error |-> r.st_error,
                  prompted |-> r.prompted, lines |-> r.lines, length |-> r.length]
    /\ UNCHANGED <<files, lastCall, wpc, wvid, wbuf, wdoc, saved, rpc, rvid, rres,
                   video_urls, valid_videos, idx, pc, shown, anIn, ftIn, ftOut>>

NextParse == AnalyzeAdQuality

SpecParse == InitParse /\ [][NextParse]_vars

----------------------------------------------------------------------------
(* Properties of the response parsing *)

\* the JSON value the code decodes from the model's text
Decoded == json_loads(clean_text(anIn.llm.text))

\* the call reached the parsing of a text the model gave
Parsed == anOut.done /\ anOut.prompted /\ ~anIn.llm.raised

\* d has every key of an AdAnalysisResult
Complete(d) ==
    /\ d.ty = "dict"
    /\ \A i \in 1..Len(TopKeys) : HasKey(d, TopKeys[i])
    /\ \A i \in 1..Len(MetricKeys) :
        /\ HasKey(d, MetricKeys[i])
        /\ GetItem(d, MetricKeys[i]).ty = "dict"
        /\ HasKey(GetItem(d, MetricKeys[i]), "score")
        /\ HasKey(GetItem(d, MetricKeys[i]), "explanation")

\* C6: when the decoded object carries start_time or end_time as a number of
\* seconds, the returned object has format_time's rendering in its place
\* (125 becomes "02:05"); a timestamp that is a string is returned as it is.
C6_NumericTimesNormalised ==
    (Parsed /\ Decoded.raised = "" /\ Complete(Decoded.value))
    => /\ anOut.ret.ty = "dict"
       /\ \A key \in {"start_time", "end_time"} :
            /\ HasKey(anOut.ret, key)
            /\ GetItem(anOut.ret, key) =
                IF GetItem(Decoded.value, key).ty = "num"
                THEN PyStr(format_time(GetItem(Decoded.value, key)))
                ELSE GetItem(Decoded.value, key)

\* C7: when the model's text decodes to a JSON object that lacks a required
\* key, analyze_ad_quality reports an error and does not return the partial
\* object.
C7_IncompleteRejected ==
    (/\ Parsed /\ Decoded.raised = ""
     /\ Decoded.value.ty = "dict" /\ ~Complete(Decoded.value))
    => (anOut.ret = PyNone /\ anOut.st_error # "")

\* C8: for a complete JSON object, with or without whitespace around it,
\* between an opening fence with any language tag or none and a closing fence,
\* analyze_ad_quality returns the decoded object.
C8_AnyFenceStripped ==
    (/\ Parsed /\ anIn.llm.fenced
     /\ json_loads(anIn.llm.body).raised = ""
     /\ Complete(json_loads(anIn.llm.body).value))
    => (anOut.st_error = "" /\ anOut.ret = json_loads(anIn.llm.body).value)

----------------------------------------------------------------------------
(* The "Analyze" button and its loop over the URLs (SpecBatch) *)

WatchUrl ==
    Chars(<<"h", "t", "t", "p", "s", ":", "/", "/", "w", "w", "w", ".",
            "y", "o", "u", "t", "u", "b", "e", ".", "c", "o", "m", "/",
            "w", "a", "t", "c", "h", "?", "v", "=">>)

ShortUrl ==
    Chars(<<"h", "t", "t", "p", "s", ":", "/", "/", "y", "o", "u", "t", "u",
            ".", "b", "e", "/">>)

\* lines of the text area: two video URLs, a line that is no URL, a blank line
UrlLines ==
    { WatchUrl \o Chars(Rep("a", IdLen)),
      Chars(<<" ">>) \o ShortUrl \o Chars(Rep("b", IdLen)) \o Chars(<<" ">>),
      Chars(<<"n", "o", "t", " ", "a", " ", "u", "r", "l">>),
      Chars(<<" ">>) }

\* what the services may answer in one round
BatchHttp == {"items", "404", "raise"}

BatchApi == {ApiOk(PyList(<<>>)), ApiOk(CHOOSE r \in RawDocs : Len(r.v) = 1),
             ApiFail("TranscriptsDisabled")}

BatchAnswers ==
    {a \in Answers :
        /\ a.tag \in {<<>>, <<"j", "s", "o", "n">>}
        /\ Len(a.text) = Len(a.body) + (IF a.fenced THEN 6 + Len(a.tag) ELSE 0)
        /\ a.body \in {json_dump(GoodAnalysis),
                       json_dump(Without(GoodAnalysis, "engagement")),
                       json_dump(PyDict(<<>>)),
                       SubSeq(json_dump(GoodAnalysis), 1,
                              Len(json_dump(GoodAnalysis)) - 1)}}

InitBatch ==
    /\ files = EmptyDir /\ lastCall = NoCall
    /\ CacheIdle /\ ParseIdle /\ TimeIdle
    /\ video_urls \in UNION {[1..k -> UrlLines] : k \in 1..MaxUrls}
    /\ valid_videos = <<>> /\ idx = 0 /\ pc = "idle" /\ shown = <<>>

\* st.button("Analyze") pressed: the lines are stripped, the empty ones dropped
Analyze ==
    /\ pc = "idle"
    /\ LET stripped == [i \in 1..Len(video_urls) |-> strip(video_urls[i], Whitespace)]
           valid == SelectSeq(stripped, LAMBDA url : url # <<>>)
       IN  /\ valid_videos' = valid
           /\ IF valid # <<>>
              THEN pc' = "loop" /\ idx' = 1 /\ shown' = shown
              ELSE /\ pc' = "done" /\ idx' = idx
                   /\ shown' = <<[kind |-> "NoLinks", raised |-> ""]>>
    /\ UNCHANGED <<files, lastCall, wpc, wvid, wbuf, wdoc, saved, rpc, rvid, rres,
                   video_urls, anIn, anOut, ftIn, ftOut>>

\* one round of the loop; an exception that is not caught ends the script
ProcessVideo(http, api, llm) ==
    /\ pc = "loop"
    /\ LET r == process_video(files, valid_videos[idx], http, api, llm) IN
        /\ files' = r.fs
        /\ shown' = Append(shown, [kind |-> r.kind, raised |-> r.raised])
        /\ pc' = IF r.raised # "" THEN "crashed"
                 ELSE IF idx = Len(valid_videos) THEN "done" ELSE "loop"
        /\ idx' = IF r.raised # "" THEN idx ELSE idx + 1
    /\ UNCHANGED <<lastCall, wpc, wvid, wbuf, wdoc, saved, rpc, rvid, rres,
                   video_urls, valid_videos, anIn, anOut, ftIn, ftOut>>

NextBatch ==
    \/ Analyze
    \/ \E http \in BatchHttp, api \in BatchApi, llm \in BatchAnswers :
        ProcessVideo(http, api, llm)

SpecBatch == InitBatch /\ [][NextBatch]_vars

\* the error kinds the loop is to survive
NonFatalKinds ==
    {"InvalidUrl", "TranscriptUnavailable", "CacheCorrupt",
     "ModelResponseMalformed", "ModelResponseIncomplete"}

\* C5: no error of a non-fatal kind met while processing one video ends the
\* batch: the loop goes on to the next URL, so that a batch that has stopped
\* has processed every URL of the list.
C5_BatchSurvivesNonFatal ==
    /\ \A i \in 1..Len(shown) :
        shown[i].kind \in NonFatalKinds => shown[i].raised = ""
    /\ (pc \in {"done", "crashed"}
        /\ \A i \in 1..Len(shown) : shown[i].kind \in NonFatalKinds \cup {"Rendered"})
       => Len(shown) = Len(valid_videos)

----------------------------------------------------------------------------
(* Two processes on one cache directory: one inside save_transcript, one     *)
(* inside load_transcript (SpecConc). files holds what the file system shows. *)

\* the identifier both processes work on, and the documents saved
SharedId == Rep("a", IdLen)

ConcDocs == {PyList(<<>>), OneEntryDoc}

\* open(file_path, "w"): the file exists from here on and is empty
WriterOpen(video_id, transcript) ==
    /\ wpc = "idle"
    /\ wpc' = "writing" /\ wvid' = video_id /\ wdoc' = transcript
    /\ wbuf' = json_dump(transcript)
    /\ files' = [files EXCEPT ![video_id] = File(<<>>)]
    /\ UNCHANGED <<lastCall, saved, rpc, rvid, rres, video_urls, valid_videos,
                   idx, pc, shown, anIn, anOut, ftIn, ftOut>>

\* json.dump writes through the file object's buffer: a part of the text
\* reaches the file before the rest
WriterFlush ==
    /\ wpc = "writing"
    /\ \E k \in (Len(files[wvid].data) + 1)..(Len(wbuf) - 1) :
        files' = [files EXCEPT ![wvid] = File(SubSeq(wbuf, 1, k))]
    /\ UNCHANGED <<lastCall, wpc, wvid, wbuf, wdoc, saved, rpc, rvid, rres,
                   video_urls, valid_videos, idx, pc, shown, anIn, anOut,
                   ftIn, ftOut>>

\* the end of the with block: the rest is written and the file closed
WriterClose ==
    /\ wpc = "writing"
    /\ wpc' = "idle"
    /\ files' = [files EXCEPT ![wvid] = File(wbuf)]
    /\ saved' = [saved EXCEPT ![wvid] = @ \cup {wdoc}]
    /\ UNCHANGED <<lastCall, wvid, wbuf, wdoc, rpc, rvid, rres, video_urls,
                   valid_videos, idx, pc, shown, anIn, anOut, ftIn, ftOut>>

\* os.path.exists(file_path); load_transcript returns None if it is False
ReaderExists(video_id) ==
    /\ rpc = "idle"
    /\ rvid' = video_id
    /\ IF files[video_id].exists
       THEN rpc' = "open" /\ rres' = [done |-> FALSE, raised |-> "", value |-> PyNone]
       ELSE rpc' = "idle" /\ rres' = [done |-> TRUE, raised |-> "", value |-> PyNone]
    /\ UNCHANGED <<files, lastCall, wpc, wvid, wbuf, wdoc, saved, video_urls,
                   valid_videos, idx, pc, shown, anIn, anOut, ftIn, ftOut>>

\* open(file_path, "r") and json.load(f) on what the file holds now
ReaderLoad ==
    /\ rpc = "open"
    /\ rpc' = "idle"
    /\ LET r == json_loads(files[rvid].data) IN
        rres' = [done |-> TRUE, raised |-> r.raised, value |-> r.value]
    /\ UNCHANGED <<files, lastCall, wpc, wvid, wbuf, wdoc, saved, rvid,
                   video_urls, valid_videos, idx, pc, shown, anIn, anOut,
                   ftIn, ftOut>>

NextConc ==
    \/ \E d \in ConcDocs : WriterOpen(SharedId, d)
    \/ WriterFlush
    \/ WriterClose
    \/ ReaderExists(SharedId)
    \/ ReaderLoad

SpecConc == Init /\ [][NextConc]_vars

\* C10: whatever the interleaving of a save_transcript(V, D) with a
\* load_transcript(V), the reader gets None (no entry) or a complete document
\* that was saved (or is being saved) for V, never a partly written file.
C10_ReaderSeesWholeDocument ==
    rres.done =>
        /\ rres.raised = ""
        /\ \/ rres.value = PyNone
           \/ rres.value \in saved[rvid]
           \/ (wpc = "writing" /\ wvid = rvid /\ rres.value = wdoc)

====
